---- MODULE Spec2Model ----
(***************************************************************************)
(* File-Organizer (src/file_organizer.py): the classification-and-         *)
(* placement engine FileOrganizer.organize_files, the classifier           *)
(* FileOrganizer.get_file_category and the watchdog handler FileHandler.   *)
(*                                                                         *)
(* A Python str is modelled as a sequence of one-character strings, so     *)
(* that str.lower, str.startswith and os.path.splitext are computed and    *)
(* not assumed.  Category names, which the code only compares and joins,   *)
(* stay TLA+ strings.                                                      *)
(***************************************************************************)
EXTENDS Integers, Sequences, FiniteSets, TLC

(***************************************************************************)
(* Bounds of the model.                                                    *)
(***************************************************************************)
MaxInputs == 3       \* what the user does: files added, files written to, presses of "Organize Files"
MaxTime == 2         \* last reading of the clock, in half seconds

(***************************************************************************)
(* Program constants.                                                      *)
(***************************************************************************)
DebounceSeconds == 1
SleepSeconds == 1

\* The clock counts half seconds.
Ticks(seconds) == 2 * seconds

Min(S) == CHOOSE x \in S : \A y \in S : x <= y

(***************************************************************************)
(* str.lower, str.startswith, os.path.splitext.                            *)
(***************************************************************************)
UpperCase ==
  <<"A","B","C","D","E","F","G","H","I","J","K","L","M",
    "N","O","P","Q","R","S","T","U","V","W","X","Y","Z">>
LowerCase ==
  <<"a","b","c","d","e","f","g","h","i","j","k","l","m",
    "n","o","p","q","r","s","t","u","v","w","x","y","z">>

lower_char(c) ==
  IF \E i \in 1..26 : UpperCase[i] = c
  THEN LowerCase[CHOOSE i \in 1..26 : UpperCase[i] = c]
  ELSE c

lower(s) == [i \in 1..Len(s) |-> lower_char(s[i])]

startswith(s, prefix) ==
  /\ Len(prefix) <= Len(s)
  /\ \A i \in 1..Len(prefix) : s[i] = prefix[i]

\* str.rfind("."): the last dot's index, 0 when there is none.
rfind_dot(p) ==
  IF \E i \in 1..Len(p) : p[i] = "."
  THEN CHOOSE i \in 1..Len(p) : p[i] = "." /\ \A j \in (i+1)..Len(p) : p[j] # "."
  ELSE 0

\* os.path.splitext on the last path component: the extension starts at the
\* last dot, unless only dots precede it (".bashrc" has no extension).
splitext(p) ==
  LET d == rfind_dot(p)
  IN IF d > 0 /\ \E k \in 1..(d-1) : p[k] # "."
     THEN <<SubSeq(p, 1, d-1), SubSeq(p, d, Len(p))>>
     ELSE <<p, <<>>>>

(***************************************************************************)
(* FileOrganizer.__init__: the extension table and the MIME prefix table,  *)
(* both in the insertion order a Python dict iterates in.                  *)
(***************************************************************************)
App == <<"a","p","p","l","i","c","a","t","i","o","n","/">>

OpenXml ==
  <<"v","n","d",".","o","p","e","n","x","m","l","f","o","r","m","a","t">> \o
  <<"s","-","o","f","f","i","c","e","d","o","c","u","m","e","n","t",".">>

file_types ==
  << <<"Images",
       {<<".","j","p","g">>, <<".","j","p","e","g">>, <<".","p","n","g">>,
        <<".","g","i","f">>, <<".","b","m","p">>, <<".","s","v","g">>}>>,
     <<"Documents",
       {<<".","p","d","f">>, <<".","d","o","c">>, <<".","d","o","c","x">>,
        <<".","t","x","t">>, <<".","x","l","s","x">>, <<".","x","l","s">>,
        <<".","p","p","t">>, <<".","p","p","t","x">>}>>,
     <<"Videos",
       {<<".","m","p","4">>, <<".","a","v","i">>, <<".","m","k","v">>,
        <<".","m","o","v">>, <<".","w","m","v">>}>>,
     <<"Audio",
       {<<".","m","p","3">>, <<".","w","a","v">>, <<".","f","l","a","c">>,
        <<".","m","4","a">>}>>,
     <<"Archives",
       {<<".","z","i","p">>, <<".","r","a","r">>, <<".","7","z">>,
        <<".","t","a","r">>, <<".","g","z">>}>>,
     <<"Code",
       {<<".","p","y">>, <<".","j","s">>, <<".","h","t","m","l">>,
        <<".","c","s","s">>, <<".","j","a","v","a">>, <<".","c","p","p">>,
        <<".","c">>, <<".","h">>}>> >>

mime_types ==
  << <<<<"i","m","a","g","e","/">>, "Images">>,
     <<App \o <<"p","d","f">>, "Documents">>,
     <<App \o <<"m","s","w","o","r","d">>, "Documents">>,
     <<App \o OpenXml \o <<"w","o","r","d","p","r","o","c","e","s","s","i","n","g","m","l",".","d","o","c","u","m","e","n","t">>, "Documents">>,
     <<App \o <<"v","n","d",".","m","s","-","e","x","c","e","l">>, "Documents">>,
     <<App \o OpenXml \o <<"s","p","r","e","a","d","s","h","e","e","t","m","l",".","s","h","e","e","t">>, "Documents">>,
     <<App \o <<"v","n","d",".","m","s","-","p","o","w","e","r","p","o","i","n","t">>, "Documents">>,
     <<App \o OpenXml \o <<"p","r","e","s","e","n","t","a","t","i","o","n","m","l",".","p","r","e","s","e","n","t","a","t","i","o","n">>, "Documents">>,
     <<<<"t","e","x","t","/">>, "Documents">>,
     <<<<"v","i","d","e","o","/">>, "Videos">>,
     <<<<"a","u","d","i","o","/">>, "Audio">>,
     <<App \o <<"z","i","p">>, "Archives">>,
     <<App \o <<"x","-","r","a","r","-","c","o","m","p","r","e","s","s","e","d">>, "Archives">>,
     <<App \o <<"x","-","7","z","-","c","o","m","p","r","e","s","s","e","d">>, "Archives">>,
     <<App \o <<"x","-","t","a","r">>, "Archives">>,
     <<App \o <<"g","z","i","p">>, "Archives">>,
     <<<<"t","e","x","t","/","x","-","p","y","t","h","o","n">>, "Code">>,
     <<<<"t","e","x","t","/","j","a","v","a","s","c","r","i","p","t">>, "Code">>,
     <<<<"t","e","x","t","/","h","t","m","l">>, "Code">>,
     <<<<"t","e","x","t","/","c","s","s">>, "Code">>,
     <<<<"t","e","x","t","/","x","-","j","a","v","a">>, "Code">>,
     <<<<"t","e","x","t","/","x","-","c","+","+">>, "Code">>,
     <<<<"t","e","x","t","/","x","-","c">>, "Code">> >>

Categories == {file_types[i][1] : i \in 1..Len(file_types)} \cup {"Others"}

(***************************************************************************)
(* magic.from_file(file_path, mime=True): either raises, or returns a MIME *)
(* string.                                                                 *)
(***************************************************************************)
SniffRaises == [ok |-> FALSE, mime |-> <<>>]
SniffReturns(m) == [ok |-> TRUE, mime |-> m]

\* A rule choice by the longest prefix, not by the order of the table.
MimeMatchesLongest(mime_type) ==
  {i \in 1..Len(mime_types) :
     /\ startswith(mime_type, mime_types[i][1])
     /\ \A j \in 1..Len(mime_types) :
          startswith(mime_type, mime_types[j][1])
            => Len(mime_types[j][1]) <= Len(mime_types[i][1])}

\* The rules of mime_types the sniffed string starts with.
MimeMatches(mime_type) ==
  {i \in 1..Len(mime_types) : startswith(mime_type, mime_types[i][1])}

\* The categories of file_types whose list holds the extension.
ExtensionMatches(file_extension) ==
  {i \in 1..Len(file_types) : file_extension \in file_types[i][2]}

\* A classifier that looks the extension up as it is written.
get_file_category_cased(filename, magic_available, sniff) ==
  IF magic_available /\ sniff.ok /\ MimeMatches(sniff.mime) # {}
  THEN mime_types[Min(MimeMatches(sniff.mime))][2]
  ELSE LET file_extension == splitext(filename)[2]
       IN IF ExtensionMatches(file_extension) # {}
          THEN file_types[Min(ExtensionMatches(file_extension))][1]
          ELSE "Others"

\* FileOrganizer.get_file_category; filename is the last component of
\* file_path, sniff the outcome of magic.from_file on it.
get_file_category(filename, magic_available, sniff) ==
  IF magic_available /\ sniff.ok /\ MimeMatches(sniff.mime) # {}
  THEN mime_types[Min(MimeMatches(sniff.mime))][2]
  ELSE LET file_extension == lower(splitext(filename)[2])
       IN IF ExtensionMatches(file_extension) # {}
          THEN file_types[Min(ExtensionMatches(file_extension))][1]
          ELSE "Others"

(***************************************************************************)
(* Paths.  A directory path is a drive and a sequence of components; a     *)
(* file path is a directory path and a file name.                          *)
(***************************************************************************)
source_dir == [drive |-> "C:", parts |-> <<"Downloads">>]

\* A join that puts what it builds on another volume.
join_elsewhere(directory, component) ==
  [drive |-> "D:", parts |-> Append(directory.parts, component)]

\* os.path.join(directory, component), the component having no drive.
join(directory, component) ==
  [drive |-> directory.drive, parts |-> Append(directory.parts, component)]

\* os.path.join(directory, filename).
join_file(directory, filename) == [dir |-> directory, name |-> filename]

\* os.path.splitdrive(path)[0], of a directory path and of a file path.
splitdrive(directory) == directory.drive
splitdrive_file(file_path) == file_path.dir.drive

(***************************************************************************)
(* The files the environment puts in the watched directory.  A file is     *)
(* known by an identity 1, 2, ...; its name is chosen when it is created,  *)
(* its size, timestamp and content type are functions of the identity.     *)
(***************************************************************************)
Names == { <<"a",".","j","p","g">>, <<"B",".","T","X","T">> }

FileIds == 1..MaxInputs

NoEntry == [kind |-> "none", id |-> 0]
DirEntry == [kind |-> "dir", id |-> 0]
FileEntry(k) == [kind |-> "file", id |-> k]

IsFile(e) == e.kind = "file"

\* os.path.getsize of an existing file.
FileSize(k) == k

\* What datetime.fromtimestamp(os.path.getctime(f)) gives for the file.
Timestamps == << [year |-> 2023, month |-> 3], [year |-> 2024, month |-> 1] >>
FileDate(k) == Timestamps[(k % Len(Timestamps)) + 1]

\* What magic.from_file gives for the file's content.
Contents ==
  << SniffRaises,
     SniffReturns(<<"i","m","a","g","e","/","p","n","g">>),
     SniffReturns(<<"t","e","x","t","/","x","-","p","y","t","h","o","n">>) >>
FileContent(k) == Contents[(k % Len(Contents)) + 1]

\* str(date.year) and calendar.month_name[date.month].
str_year(y) == CASE y = 2023 -> "2023" [] y = 2024 -> "2024" [] OTHER -> "year"
month_name ==
  << "January", "February", "March", "April", "May", "June", "July",
     "August", "September", "October", "November", "December" >>

\* The destination folders a run can make: one per category, and a year
\* folder with a month folder in it per timestamp.
CategoryDirs == {join(source_dir, c) : c \in Categories}
YearDirs == {join(source_dir, str_year(Timestamps[i].year)) : i \in 1..Len(Timestamps)}
MonthDirs ==
  {join(join(source_dir, str_year(Timestamps[i].year)), month_name[Timestamps[i].month]) :
     i \in 1..Len(Timestamps)}
Folders == CategoryDirs \cup YearDirs \cup MonthDirs

\* os.makedirs creates the directory and every missing ancestor of it.
Ancestors(d) ==
  {[drive |-> d.drive, parts |-> SubSeq(d.parts, 1, k)] :
     k \in (Len(source_dir.parts) + 1)..Len(d.parts)}

Runners == {"watcher", "manual"}

VARIABLES
  magic_available,  \* MAGIC_AVAILABLE
  date_based,       \* the GUI's "organize by date" box: FileHandler.date_based, and what the button passes
  source,           \* the entries of source_dir: name -> entry
  folders,          \* the folders that exist under source_dir
  held,             \* folder -> name -> entry: what each folder holds
  stats,            \* FileOrganizer.stats
  run,              \* runner -> the locals and position of its organize_files call
  handler,          \* the observer thread: its position in FileHandler
  last_modified,    \* FileHandler.last_modified: name -> tick, -1 when not a key
  queue,            \* filesystem events not yet dispatched
  now,              \* time.time(), in ticks
  nFiles,           \* files created so far
  nInputs,          \* what the user has done so far
  relocated,        \* history: file id -> times a run moved it into a folder
  modlog,           \* history: the on_modified calls handled, in order
  settled,          \* history: the last pass ran alone, moved all it planned, and nothing was added since it listed
  probe             \* the classifier's input and result (SpecClassify)

vars ==
  << magic_available, date_based, source, folders, held, stats, run, handler, last_modified,
     queue, now, nFiles, nInputs, relocated, modlog, settled, probe >>

fsVars == << source, folders, held >>
watchVars == << handler, last_modified, queue, modlog >>
envVars == << now, nFiles, nInputs >>

(***************************************************************************)
(* FileOrganizer.reset_stats; a defaultdict(int) reads 0 for every key.    *)
(***************************************************************************)
ZeroStats ==
  [ total_files |-> 0, total_size |-> 0, space_freed |-> 0,
    files_by_category |-> [c \in Categories |-> 0],
    size_by_category |-> [c \in Categories |-> 0] ]

\* No reset: the counters of the pass before are kept.
keep_stats == stats

reset_stats == ZeroStats

\* FileOrganizer.get_file_size: 0 when os.path.getsize raises.
get_file_size(entry) == IF IsFile(entry) THEN FileSize(entry.id) ELSE 0

\* FileOrganizer.get_date_based_path: the directory itself when getctime raises.
get_date_based_path(entry, directory) ==
  IF IsFile(entry)
  THEN join(join(directory, str_year(FileDate(entry.id).year)),
            month_name[FileDate(entry.id).month])
  ELSE directory

\* magic.from_file raises on a path that is no file.
Sniff(entry) == IF IsFile(entry) THEN FileContent(entry.id) ELSE SniffRaises

IdleRun ==
  [ pc |-> "idle", date_based |-> FALSE, todo |-> {}, plan |-> <<>>,
    g |-> 0, f |-> 0, category |-> "Others", file_size |-> 0,
    errors |-> {}, alone |-> TRUE, fresh |-> TRUE ]

Other(r) == IF r = "watcher" THEN "manual" ELSE "watcher"

SetRun(r, rec) == run' = [run EXCEPT ![r] = rec]

\* files_by_category[destination_dir].append((file_path, filename)): a dict
\* keeps its keys in the order of first insertion.
PlanAppend(plan, destination_dir, filename) ==
  IF \E i \in 1..Len(plan) : plan[i].destination_dir = destination_dir
  THEN [i \in 1..Len(plan) |->
          IF plan[i].destination_dir = destination_dir
          THEN [plan[i] EXCEPT !.files = Append(@, filename)]
          ELSE plan[i]]
  ELSE Append(plan, [destination_dir |-> destination_dir, files |-> <<filename>>])

\* Where the call stands once an entry of the listing is dealt with: at the
\* next entry, or at the first destination group, or at its end.
AfterEntry(rec) ==
  IF rec.todo # {} THEN [rec EXCEPT !.pc = "group"]
  ELSE IF rec.plan # <<>> THEN [rec EXCEPT !.pc = "exists", !.g = 1, !.f = 1]
  ELSE [rec EXCEPT !.pc = "done"]

\* Where the call stands once a file of the current group is dealt with.
AfterFile(rec) ==
  IF rec.f < Len(rec.plan[rec.g].files) THEN [rec EXCEPT !.f = @ + 1]
  ELSE IF rec.g < Len(rec.plan) THEN [rec EXCEPT !.pc = "exists", !.g = @ + 1, !.f = 1]
  ELSE [rec EXCEPT !.pc = "done"]

(***************************************************************************)
(* The environment: the user's files in the watched directory.  The        *)
(* subdirectories of the user are there from the start.                    *)
(***************************************************************************)
Event(type, src_path, is_directory) ==
  [event_type |-> type, src_path |-> src_path, is_directory |-> is_directory]

\* A new file appears; the observer reports it when it is watching.
EnvCreate(n) ==
  /\ source[n] = NoEntry
  /\ nInputs < MaxInputs
  /\ nInputs' = nInputs + 1
  /\ nFiles' = nFiles + 1
  /\ source' = [source EXCEPT ![n] = FileEntry(nFiles + 1)]
  /\ \E watching \in BOOLEAN :
       queue' = IF watching THEN Append(queue, Event("created", n, FALSE)) ELSE queue
  /\ settled' = FALSE
  /\ run' = [r \in Runners |->
              IF run[r].pc = "idle" THEN run[r] ELSE [run[r] EXCEPT !.fresh = FALSE]]
  /\ UNCHANGED << magic_available, date_based, folders, held, stats, handler, last_modified,
                  now, relocated, modlog, probe >>

\* An entry of the directory is written to.
EnvModify(n) ==
  /\ source[n] # NoEntry
  /\ nInputs < MaxInputs
  /\ nInputs' = nInputs + 1
  /\ queue' = Append(queue, Event("modified", n, source[n] = DirEntry))
  /\ UNCHANGED << magic_available, date_based, fsVars, stats, run, handler, last_modified,
                  now, nFiles, relocated, modlog, settled, probe >>

(***************************************************************************)
(* Callers of organize_files.                                              *)
(***************************************************************************)
\* The call of organize_files by runner r: its frame, before the first line.
Call(r, mode) ==
  run' = [q \in Runners |->
            IF q = r
            THEN [IdleRun EXCEPT !.pc = "start", !.date_based = mode,
                                 !.alone = (run[Other(r)].pc = "idle")]
            ELSE [run[q] EXCEPT !.alone = (run[q].pc = "idle")]]

\* FileOrganizerGUI.organize_files: the "Organize Files" button.
Press ==
  /\ run["manual"].pc = "idle"
  /\ nInputs < MaxInputs
  /\ nInputs' = nInputs + 1
  /\ Call("manual", date_based)
  /\ UNCHANGED << magic_available, date_based, fsVars, stats, watchVars, now, nFiles,
                  relocated, settled, probe >>

\* FileHandler.on_created: an event of a directory is dropped; for a file,
\* time.sleep(1), then organize_files is called.
on_created ==
  /\ handler.pc = "idle"
  /\ queue # <<>>
  /\ Head(queue).event_type = "created"
  /\ queue' = Tail(queue)
  /\ IF Head(queue).is_directory
     THEN UNCHANGED << handler, run, now >>
     ELSE /\ \E t \in (now + Ticks(SleepSeconds))..MaxTime : now' = t
          /\ handler' = [handler EXCEPT !.pc = "run"]
          /\ Call("watcher", date_based)
  /\ UNCHANGED << magic_available, date_based, fsVars, stats, last_modified,
                  nFiles, nInputs, relocated, modlog, settled, probe >>

\* time.time(): the clock never runs backwards.
time_time == now..MaxTime

\* The debounce test with its comparison turned round.
DebouncedLate(src_path, current_time) ==
  /\ last_modified[src_path] # -1
  /\ current_time - last_modified[src_path] > Ticks(DebounceSeconds)

\* The debounce test of FileHandler.on_modified: the event is dropped.
Debounced(src_path, current_time) ==
  /\ last_modified[src_path] # -1
  /\ current_time - last_modified[src_path] < Ticks(DebounceSeconds)

\* FileHandler.on_modified.
on_modified ==
  /\ handler.pc = "idle"
  /\ queue # <<>>
  /\ Head(queue).event_type = "modified"
  /\ queue' = Tail(queue)
  /\ IF Head(queue).is_directory
     THEN UNCHANGED << handler, last_modified, run, modlog, now >>
     ELSE \E current_time \in time_time :
            /\ now' = current_time
            /\ IF Debounced(Head(queue).src_path, current_time)
               THEN /\ modlog' = Append(modlog, [src_path |-> Head(queue).src_path,
                                                 time |-> current_time, ran |-> FALSE])
                    /\ UNCHANGED << handler, last_modified, run >>
               ELSE /\ last_modified' =
                         [last_modified EXCEPT ![Head(queue).src_path] = current_time]
                    /\ modlog' = Append(modlog, [src_path |-> Head(queue).src_path,
                                                 time |-> current_time, ran |-> TRUE])
                    /\ handler' = [handler EXCEPT !.pc = "run"]
                    /\ Call("watcher", date_based)
  /\ UNCHANGED << magic_available, date_based, fsVars, stats, nFiles, nInputs,
                  relocated, settled, probe >>

(***************************************************************************)
(* FileOrganizer.organize_files, one step per filesystem call or per       *)
(* update of the shared statistics.                                        *)
(***************************************************************************)
\* os.listdir(source_dir): the names of the entries, in no particular order.
listdir == {n \in Names : source[n] # NoEntry}

\* A test that takes no entry for a directory.
isdir_never(n) == FALSE

\* os.path.isdir(file_path).
isdir(n) == source[n] = DirEntry

\* Lines 127-133: reset_stats, the empty plan, os.listdir.
Start(r) ==
  /\ run[r].pc = "start"
  /\ stats' = reset_stats
  /\ SetRun(r, AfterEntry([run[r] EXCEPT !.todo = listdir, !.plan = <<>>]))
  /\ UNCHANGED << magic_available, date_based, fsVars, watchVars, envVars,
                  relocated, settled, probe >>

\* Lines 134-138: a directory of the listing is skipped.
SkipDirectory(r, n) ==
  /\ run[r].pc = "group"
  /\ n \in run[r].todo
  /\ isdir(n)
  /\ SetRun(r, AfterEntry([run[r] EXCEPT !.todo = @ \ {n}]))
  /\ UNCHANGED << magic_available, date_based, fsVars, stats, watchVars, envVars,
                  relocated, settled, probe >>

\* Lines 141-143: in date mode the entry joins the group of its month.
GroupByDate(r, n) ==
  /\ run[r].pc = "group"
  /\ n \in run[r].todo
  /\ ~isdir(n)
  /\ run[r].date_based
  /\ LET destination_dir == get_date_based_path(source[n], source_dir)
     IN SetRun(r, AfterEntry([run[r] EXCEPT
                                !.todo = @ \ {n},
                                !.plan = PlanAppend(@, destination_dir, n)]))
  /\ UNCHANGED << magic_available, date_based, fsVars, stats, watchVars, envVars,
                  relocated, settled, probe >>

\* Lines 151-152: total_files and total_size count the file.
count_file(st, file_size) ==
  [st EXCEPT !.total_files = @ + 1, !.total_size = @ + file_size]

\* Lines 153-154: the category's two counters count the file.
count_category(st, category, file_size) ==
  [st EXCEPT !.files_by_category[category] = @ + 1,
             !.size_by_category[category] = @ + file_size]

\* Grouping that makes the folder of the category as soon as a file joins
\* its group.
GroupByCategoryEager(r, n) ==
  /\ run[r].pc = "group"
  /\ n \in run[r].todo
  /\ ~isdir(n)
  /\ ~run[r].date_based
  /\ LET category == get_file_category(n, magic_available, Sniff(source[n]))
         destination_dir == join(source_dir, category)
         file_size == get_file_size(source[n])
     IN /\ SetRun(r, [run[r] EXCEPT
                        !.pc = "count",
                        !.todo = @ \ {n},
                        !.plan = PlanAppend(@, destination_dir, n),
                        !.category = category,
                        !.file_size = file_size])
        /\ stats' = count_file(stats, file_size)
        /\ folders' = folders \cup Ancestors(destination_dir)
  /\ UNCHANGED << magic_available, date_based, source, held, watchVars, envVars,
                  relocated, settled, probe >>

\* Lines 145-152: the entry joins the group of its category; total_files
\* and total_size count it.
GroupByCategory(r, n) ==
  /\ run[r].pc = "group"
  /\ n \in run[r].todo
  /\ ~isdir(n)
  /\ ~run[r].date_based
  /\ LET category == get_file_category(n, magic_available, Sniff(source[n]))
         destination_dir == join(source_dir, category)
         file_size == get_file_size(source[n])
     IN /\ SetRun(r, [run[r] EXCEPT
                        !.pc = "count",
                        !.todo = @ \ {n},
                        !.plan = PlanAppend(@, destination_dir, n),
                        !.category = category,
                        !.file_size = file_size])
        /\ stats' = count_file(stats, file_size)
  /\ UNCHANGED << magic_available, date_based, fsVars, watchVars, envVars,
                  relocated, settled, probe >>

\* Lines 153-154: the category's counters count it.
CountCategory(r) ==
  /\ run[r].pc = "count"
  /\ stats' = count_category(stats, run[r].category, run[r].file_size)
  /\ SetRun(r, AfterEntry([run[r] EXCEPT !.category = "Others", !.file_size = 0]))
  /\ UNCHANGED << magic_available, date_based, fsVars, watchVars, envVars,
                  relocated, settled, probe >>

\* os.path.exists(destination_dir).
exists(destination_dir) == destination_dir = source_dir \/ destination_dir \in folders

\* Lines 159-161: the next destination group; its folder is looked up.
CheckFolder(r) ==
  /\ run[r].pc = "exists"
  /\ SetRun(r, [run[r] EXCEPT
                  !.pc = IF exists(run[r].plan[run[r].g].destination_dir)
                         THEN "move" ELSE "makedirs"])
  /\ UNCHANGED << magic_available, date_based, fsVars, stats, watchVars, envVars,
                  relocated, settled, probe >>

\* Line 162: os.makedirs(destination_dir) creates the folder and its missing
\* ancestors, or raises: FileExistsError when the folder has appeared since
\* the lookup, OSError when the directory cannot be written.  Nothing
\* catches it: the call ends there.
MakeDirs(r) ==
  /\ run[r].pc = "makedirs"
  /\ LET destination_dir == run[r].plan[run[r].g].destination_dir
     IN \E permitted \in BOOLEAN :
          IF permitted /\ ~exists(destination_dir)
          THEN /\ folders' = folders \cup Ancestors(destination_dir)
               /\ SetRun(r, [run[r] EXCEPT !.pc = "move"])
          ELSE /\ SetRun(r, [run[r] EXCEPT !.pc = "raised"])
               /\ UNCHANGED folders
  /\ UNCHANGED << magic_available, date_based, source, held, stats, watchVars, envVars,
                  relocated, settled, probe >>

\* A copy in place of the move: the entry stays in source_dir as well.
Copied(r, n, destination_dir) ==
  IF destination_dir = source_dir
  THEN UNCHANGED << fsVars, relocated >>
  ELSE /\ held' = [held EXCEPT ![destination_dir][n] = source[n]]
       /\ relocated' = IF IsFile(source[n])
                       THEN [relocated EXCEPT ![source[n].id] = @ + 1]
                       ELSE relocated
       /\ UNCHANGED << source, folders >>

\* shutil.move(file_path, destination) succeeds: the entry is renamed into
\* the folder, replacing what the folder held under that name.
Moved(r, n, destination_dir) ==
  IF destination_dir = source_dir
  THEN UNCHANGED << fsVars, relocated >>
  ELSE /\ source' = [source EXCEPT ![n] = NoEntry]
       /\ held' = [held EXCEPT ![destination_dir][n] = source[n]]
       /\ relocated' = IF IsFile(source[n])
                       THEN [relocated EXCEPT ![source[n].id] = @ + 1]
                       ELSE relocated
       /\ UNCHANGED folders

\* A move loop that takes a file whose move failed out of total_files again.
MoveFileUncounting(r) ==
  /\ run[r].pc = "move"
  /\ LET destination_dir == run[r].plan[run[r].g].destination_dir
         n == run[r].plan[run[r].g].files[run[r].f]
         file_path == join_file(source_dir, n)
         destination == join_file(destination_dir, n)
         source_drive == splitdrive_file(file_path)
         dest_drive == splitdrive_file(destination)
         counted == IF source_drive # dest_drive
                    THEN [stats EXCEPT !.space_freed = @ + get_file_size(source[n])]
                    ELSE stats
     IN \E permitted \in BOOLEAN :
          IF permitted /\ source[n] # NoEntry
          THEN /\ Moved(r, n, destination_dir)
               /\ SetRun(r, AfterFile(run[r]))
               /\ stats' = counted
          ELSE /\ SetRun(r, AfterFile([run[r] EXCEPT !.errors = @ \cup {n}]))
               /\ stats' = [counted EXCEPT !.total_files = @ - 1]
               /\ UNCHANGED << fsVars, relocated >>
  /\ UNCHANGED << magic_available, date_based, watchVars, envVars,
                  settled, probe >>

\* Lines 164-175: one file of the group.  The drives of the two paths are
\* compared, then shutil.move either renames the file or raises (the file
\* is gone, or may not be moved), which is caught and printed.
MoveFile(r) ==
  /\ run[r].pc = "move"
  /\ LET destination_dir == run[r].plan[run[r].g].destination_dir
         n == run[r].plan[run[r].g].files[run[r].f]
         file_path == join_file(source_dir, n)
         destination == join_file(destination_dir, n)
         source_drive == splitdrive_file(file_path)
         dest_drive == splitdrive_file(destination)
     IN /\ stats' = IF source_drive # dest_drive
                    THEN [stats EXCEPT !.space_freed = @ + get_file_size(source[n])]
                    ELSE stats
        /\ \E permitted \in BOOLEAN :
             IF permitted /\ source[n] # NoEntry
             THEN /\ Moved(r, n, destination_dir)
                  /\ SetRun(r, AfterFile(run[r]))
             ELSE /\ SetRun(r, AfterFile([run[r] EXCEPT !.errors = @ \cup {n}]))
                  /\ UNCHANGED << fsVars, relocated >>
  /\ UNCHANGED << magic_available, date_based, watchVars, envVars,
                  settled, probe >>

\* organize_files returns to its caller: the handler takes the next event,
\* the GUI refreshes its dashboard.
Return(r) ==
  /\ run[r].pc = "done"
  /\ settled' = (run[r].alone /\ run[r].fresh /\ run[r].errors = {})
  /\ SetRun(r, IdleRun)
  /\ IF r = "watcher"
     THEN handler' = [handler EXCEPT !.pc = "idle"]
     ELSE UNCHANGED handler
  /\ UNCHANGED << magic_available, date_based, fsVars, stats, last_modified, queue, modlog,
                  envVars, relocated, probe >>

\* The exception of os.makedirs leaves organize_files: the GUI catches and
\* logs it; in the observer thread it leaves the handler.
Raise(r) ==
  /\ run[r].pc = "raised"
  /\ SetRun(r, IdleRun)
  /\ IF r = "watcher"
     THEN handler' = [handler EXCEPT !.pc = "idle"]
     ELSE UNCHANGED handler
  /\ UNCHANGED << magic_available, date_based, fsVars, stats, last_modified, queue, modlog,
                  envVars, relocated, settled, probe >>

(***************************************************************************)
(* The watched directory, the GUI and the observer.                        *)
(***************************************************************************)
NoProbe == [filename |-> <<>>, sniff |-> SniffRaises, called |-> FALSE, category |-> "Others"]

Init ==
  /\ date_based \in BOOLEAN
  /\ magic_available \in (IF date_based THEN {FALSE} ELSE BOOLEAN)
  /\ source \in {s \in [Names -> {NoEntry, DirEntry}] :
                   Cardinality({n \in Names : s[n] = DirEntry}) <= 1}
  /\ folders = {}
  /\ held = [d \in CategoryDirs \cup MonthDirs |-> [n \in Names |-> NoEntry]]
  /\ stats = ZeroStats
  /\ run = [r \in Runners |-> IdleRun]
  /\ handler = [pc |-> "idle"]
  /\ last_modified = [n \in Names |-> -1]
  /\ queue = <<>>
  /\ now = 0
  /\ nFiles = 0
  /\ nInputs = 0
  /\ relocated = [k \in FileIds |-> 0]
  /\ modlog = <<>>
  /\ settled = FALSE
  /\ probe = NoProbe

\* What the user does in the watched directory.
User ==
  \/ \E n \in Names : EnvCreate(n)
  \/ \E n \in Names : EnvModify(n)

\* A step of the call of organize_files that runner r is in.
Pass(r) ==
  \/ Start(r)
  \/ \E n \in Names : SkipDirectory(r, n)
  \/ \E n \in Names : GroupByDate(r, n)
  \/ \E n \in Names : GroupByCategory(r, n)
  \/ CountCategory(r)
  \/ CheckFolder(r)
  \/ MakeDirs(r)
  \/ MoveFile(r)
  \/ Return(r)
  \/ Raise(r)

\* The program: nothing keeps a pass of the observer thread and a pass of
\* the GUI thread apart.
Next ==
  \/ User
  \/ Press
  \/ on_created
  \/ on_modified
  \/ \E r \in Runners : Pass(r)

Spec == Init /\ [][Next]_vars

\* The passes that follow one another: organize_files is not called while
\* another call of it is under way.
Serial == \E r \in Runners : run[r].pc = "idle"

NextSerial ==
  \/ User
  \/ Press /\ Serial'
  \/ on_created /\ Serial'
  \/ on_modified /\ Serial'
  \/ \E r \in Runners : Pass(r)

SpecSerial == Init /\ [][NextSerial]_vars

(***************************************************************************)
(* The classifier alone, on every extension of the table in both cases,    *)
(* on names without a known extension, and on every outcome of the         *)
(* content sniffer.                                                        *)
(***************************************************************************)
upper_char(c) ==
  IF \E i \in 1..26 : LowerCase[i] = c
  THEN UpperCase[CHOOSE i \in 1..26 : LowerCase[i] = c]
  ELSE c
upper(s) == [i \in 1..Len(s) |-> upper_char(s[i])]

AllExtensions == UNION {file_types[i][2] : i \in 1..Len(file_types)}

ProbeNames ==
  {<<"f">> \o e : e \in AllExtensions}
    \cup {upper(<<"f">> \o e) : e \in AllExtensions}
    \cup { <<"f",".","x","y","z">>, <<"f">>, <<".","p","y">>, <<"f",".">>,
           <<"f",".","t","a","r",".","g","z">>, <<"f",".","j","p","g",".","b","a","k">> }

ProbeMimes ==
  {mime_types[i][1] : i \in 1..Len(mime_types)}
    \cup { <<"i","m","a","g","e","/","p","n","g">>,
           <<"t","e","x","t","/","p","l","a","i","n">>,
           App \o <<"o","c","t","e","t","-","s","t","r","e","a","m">>,
           App \o <<"j","s","o","n">>,
           <<"i","n","o","d","e","/","x","-","e","m","p","t","y">> }

ProbeSniffs == {SniffRaises} \cup {SniffReturns(m) : m \in ProbeMimes}

InitClassify ==
  /\ magic_available \in BOOLEAN
  /\ probe \in {[filename |-> n, sniff |-> s, called |-> FALSE, category |-> "Others"] :
                  n \in ProbeNames, s \in ProbeSniffs}
  /\ source = [n \in Names |-> NoEntry]
  /\ folders = {}
  /\ held = [d \in CategoryDirs \cup MonthDirs |-> [n \in Names |-> NoEntry]]
  /\ stats = ZeroStats
  /\ run = [r \in Runners |-> IdleRun]
  /\ date_based = FALSE
  /\ handler = [pc |-> "idle"]
  /\ last_modified = [n \in Names |-> -1]
  /\ queue = <<>>
  /\ now = 0
  /\ nFiles = 0
  /\ nInputs = 0
  /\ relocated = [k \in FileIds |-> 0]
  /\ modlog = <<>>
  /\ settled = FALSE

\* A call of get_file_category on the probe.
Classify ==
  /\ ~probe.called
  /\ probe' = [probe EXCEPT
                 !.called = TRUE,
                 !.category = get_file_category(probe.filename, magic_available, probe.sniff)]
  /\ UNCHANGED << magic_available, date_based, fsVars, stats, run, watchVars, envVars,
                  relocated, settled >>

NextClassify == Classify

SpecClassify == InitClassify /\ [][NextClassify]_vars

(***************************************************************************)
(* The claims.                                                             *)
(***************************************************************************)

\* C1  Debounce: of two modification events for the same path that
\* on_modified handles less than the one-second window apart, at most one
\* calls organize_files.
C1_Debounce ==
  \A i \in 1..Len(modlog) : \A j \in 1..Len(modlog) :
    ( /\ i < j
      /\ modlog[i].src_path = modlog[j].src_path
      /\ modlog[j].time - modlog[i].time < Ticks(1) )
    => ~(modlog[i].ran /\ modlog[j].ran)

\* C1 happens: an event ran a pass and a later one for the same path, inside
\* the window, was dropped; and two events a full window apart both ran one.
C1_Witness ==
  /\ Len(modlog) = 2
  /\ modlog[1].src_path = modlog[2].src_path
  /\ modlog[2].time - modlog[1].time < Ticks(1)
  /\ modlog[1].ran
  /\ ~modlog[2].ran

C1_WitnessApart ==
  /\ Len(modlog) = 2
  /\ modlog[1].src_path = modlog[2].src_path
  /\ modlog[1].ran
  /\ modlog[2].ran

\* The files that lie loose in source_dir.
Loose == {n \in Names : IsFile(source[n])}

\* C2  Two passes in sequence: once a pass, run on its own, has moved every
\* file it planned, and as long as no file is added, no loose file is left
\* in source_dir, and a further pass moves nothing and creates no folder
\* (settled records exactly that the last pass to return was such a pass and
\* that nothing was added since it listed the directory).
C2_Idempotent ==
  /\ [](settled => Loose = {})
  /\ [][(settled /\ settled') => UNCHANGED fsVars]_vars

\* C2 happens: a pass has relocated a file, and the pass after it has run to
\* its end with nothing to plan.
C2_Witness ==
  /\ settled
  /\ \E k \in FileIds : relocated[k] > 0
  /\ \E r \in Runners : run[r].pc = "done" /\ run[r].plan = <<>>

\* C3  A failure on one file does not abort the pass: a call of
\* organize_files in which the move of a file has failed (and was caught and
\* printed) never ends by raising; it goes on to every remaining file and
\* returns normally.
C3_ErrorsDoNotAbort ==
  \A r \in Runners : run[r].errors # {} => run[r].pc # "raised"

\* What a pass that has reached its end has planned, read off its plan: the
\* files of the group of a folder, and where each of them now is (in the
\* folder when its move succeeded, still in source_dir when it failed).
GroupOf(r, destination_dir) ==
  {i \in 1..Len(run[r].plan) : run[r].plan[i].destination_dir = destination_dir}

PlannedIn(r, destination_dir) ==
  IF GroupOf(r, destination_dir) = {} THEN {}
  ELSE LET files == run[r].plan[Min(GroupOf(r, destination_dir))].files
       IN {files[i] : i \in 1..Len(files)}

EntryNow(n, destination_dir) ==
  IF source[n] # NoEntry THEN source[n] ELSE held[destination_dir][n]

RECURSIVE SizeSum(_, _)
SizeSum(names, destination_dir) ==
  IF names = {} THEN 0
  ELSE LET n == CHOOSE x \in names : TRUE
       IN get_file_size(EntryNow(n, destination_dir))
            + SizeSum(names \ {n}, destination_dir)

RECURSIVE Total(_, _)
Total(f, S) ==
  IF S = {} THEN 0
  ELSE LET c == CHOOSE x \in S : TRUE IN f[c] + Total(f, S \ {c})

\* The statistics a classification pass produces from its own plan alone.
OwnFiles(r) == [c \in Categories |-> Cardinality(PlannedIn(r, join(source_dir, c)))]
OwnSizes(r) ==
  [c \in Categories |-> SizeSum(PlannedIn(r, join(source_dir, c)), join(source_dir, c))]

\* C4  Statistics are not cumulative: at the end of a pass that ran on its
\* own, whatever passes went before, the counters hold what this pass
\* counted and nothing else (in date mode: zero).  The sizes are compared
\* when no file was added during the pass, so that each planned file can be
\* found again.
C4_NotCumulative ==
  \A r \in Runners :
    (run[r].pc = "done" /\ run[r].alone) =>
      IF run[r].date_based
      THEN stats = ZeroStats
      ELSE /\ stats.files_by_category = OwnFiles(r)
           /\ stats.total_files = Total(OwnFiles(r), Categories)
           /\ stats.space_freed = 0
           /\ run[r].fresh =>
                /\ stats.size_by_category = OwnSizes(r)
                /\ stats.total_size = Total(OwnSizes(r), Categories)

\* C4 happens: a classification pass ends having counted a file, after an
\* earlier pass had counted and relocated another one.
C4_Witness ==
  \E r \in Runners :
    /\ run[r].pc = "done"
    /\ run[r].alone
    /\ ~run[r].date_based
    /\ stats.total_files > 0
    /\ \E d \in CategoryDirs : \E n \in Names :
         IsFile(held[d][n]) /\ \A e \in CategoryDirs : n \notin PlannedIn(r, e)

\* C5  At the end of every classification pass, total_size is the sum of
\* size_by_category over all categories.
C5_SizesAddUp ==
  \A r \in Runners :
    (run[r].pc = "done" /\ ~run[r].date_based) =>
      stats.total_size = Total(stats.size_by_category, Categories)

\* The grouping part of a pass: lines 127-156, before the first folder is
\* looked up.
Grouping(r) == run[r].pc \in {"start", "group", "count"}

\* A step that runner r takes in its pass.
StepOf(r) == run'[r].pc # run[r].pc \/ run'[r].todo # run[r].todo \/ run'[r].f # run[r].f

\* The places (directory and name) where file k now is.
Places(k) ==
  {<<source_dir, n>> : n \in {m \in Names : source[m] = FileEntry(k)}}
    \cup {p \in (CategoryDirs \cup MonthDirs) \X Names : held[p[1]][p[2]] = FileEntry(k)}

\* C6  Folders are made lazily: a step of the grouping part of a pass
\* creates no folder and moves no file; whenever the set of folders changes,
\* a pass is at os.makedirs for a destination group that holds at least one
\* file, and what appears is that group's folder (with its missing
\* parents); and while no file has ever been in source_dir there is no
\* folder.
C6_Lazy ==
  /\ [](nFiles = 0 => folders = {})
  /\ [][\A r \in Runners : (Grouping(r) /\ StepOf(r)) => UNCHANGED fsVars]_vars
  /\ [][folders' # folders =>
          \E r \in Runners :
            /\ run[r].pc = "makedirs"
            /\ Len(run[r].plan[run[r].g].files) >= 1
            /\ folders' = folders \cup Ancestors(run[r].plan[run[r].g].destination_dir)]_vars

\* C6 happens: a classification pass has reached its end having made
\* exactly the folders of its groups, and some category has none.
C6_Witness ==
  \E r \in Runners :
    /\ run[r].pc = "done"
    /\ run[r].plan # <<>>
    /\ folders = {run[r].plan[i].destination_dir : i \in 1..Len(run[r].plan)}
    /\ \E d \in CategoryDirs : d \notin folders

\* Where file k is found outside the place <<destination_dir, n>>.
Elsewhere(k, destination_dir, n) == Places(k) \ {<<destination_dir, n>>}

\* C7  Subdirectories are skipped: no step moves or renames a subdirectory
\* of source_dir (the user's, or a folder made by an earlier pass), and a
\* file inside a folder is never moved out of it, so it never turns up in
\* another place.
C7_SkipsSubdirectories ==
  /\ [][\A n \in Names : source[n] = DirEntry => source'[n] = DirEntry]_vars
  /\ [][folders \subseteq folders']_vars
  /\ [][\A d \in CategoryDirs \cup MonthDirs : \A n \in Names :
          IsFile(held[d][n]) => Elsewhere(held[d][n].id, d, n)' = {}]_vars
  /\ [](\A d \in CategoryDirs \cup MonthDirs : \A n \in Names : held[d][n] # DirEntry)

\* C7 happens: a pass has reached its end in a directory that holds a
\* subdirectory of the user and a folder with a file of an earlier pass.
C7_Witness ==
  \E r \in Runners :
    /\ run[r].pc = "done"
    /\ \E n \in Names : source[n] = DirEntry
    /\ \E d \in CategoryDirs \cup MonthDirs : \E n \in Names :
         /\ IsFile(held[d][n])
         /\ \A i \in 1..Len(run[r].plan) :
              \A j \in 1..Len(run[r].plan[i].files) : run[r].plan[i].files[j] # n

\* The extension the classifier looks up, and whether the lookup is reached:
\* the sniffer is missing, raises, or returns a string that no rule of
\* mime_types is a prefix of.
ProbeExtension == lower(splitext(probe.filename)[2])

FellBack ==
  \/ ~magic_available
  \/ ~probe.sniff.ok
  \/ \A i \in 1..Len(mime_types) : ~startswith(probe.sniff.mime, mime_types[i][1])

\* The category of the table that lists the extension, "Others" when none
\* does.
InTable(category) ==
  /\ \A i \in 1..Len(file_types) :
       ProbeExtension \in file_types[i][2] => category = file_types[i][1]
  /\ (\A i \in 1..Len(file_types) : ProbeExtension \notin file_types[i][2])
       => category = "Others"

\* C8 as it stands: a file with a known extension gets the category whose
\* table lists the lowercased extension, whatever the sniffer says; a file
\* with an unknown extension and no sniffer gets "Others".
C8_KnownExtension ==
  probe.called =>
    /\ \A i \in 1..Len(file_types) :
         ProbeExtension \in file_types[i][2] => probe.category = file_types[i][1]
    /\ (~magic_available /\ \A i \in 1..Len(file_types) :
                              ProbeExtension \notin file_types[i][2])
         => probe.category = "Others"

\* C8  amended: when the sniffer is missing, raises or matches no rule of
\* mime_types, get_file_category returns the category whose table lists the
\* lowercased extension, and "Others" when no table lists it; when the
\* sniffed string matches, it returns the category of the first rule that
\* is a prefix of it, whatever the extension.
C8_ExtensionFallback ==
  probe.called =>
    IF FellBack
    THEN InTable(probe.category)
    ELSE \E i \in 1..Len(mime_types) :
           /\ startswith(probe.sniff.mime, mime_types[i][1])
           /\ \A j \in 1..(i - 1) : ~startswith(probe.sniff.mime, mime_types[j][1])
           /\ probe.category = mime_types[i][2]

\* C8 happens: the sniffer is there and returns a string no rule matches,
\* and a name with a known extension in capitals gets its table's category.
C8_Witness ==
  /\ probe.called
  /\ magic_available
  /\ probe.sniff.ok
  /\ FellBack
  /\ splitext(probe.filename)[2] # ProbeExtension
  /\ \E i \in 1..Len(file_types) :
       ProbeExtension \in file_types[i][2] /\ probe.category = file_types[i][1]

\* C9  Under any interleaving of passes, every file that came to lie loose
\* in source_dir is in exactly one place, in source_dir or in one folder,
\* and has been relocated at most once.
C9_OnePlace ==
  \A k \in 1..nFiles : Cardinality(Places(k)) = 1 /\ relocated[k] <= 1

\* What a pass planned, and what of it is gone from source_dir.
Planned(r) == UNION {PlannedIn(r, join(source_dir, c)) : c \in Categories}

Failed(r) == run[r].errors

\* C10  total_files counts what the grouping step classified, not what was
\* moved: at the end of a classification pass that ran on its own, every
\* file whose move failed is a planned file that still lies in source_dir,
\* total_files is the number of files moved plus the number of files whose
\* move failed, and the category of each failed file counts it, in number
\* and in size.  What has left source_dir is read off the directory when no
\* file was added during the pass.
C10_CountsClassified ==
  \A r \in Runners :
    (run[r].pc \in {"done", "raised"} /\ run[r].alone /\ ~run[r].date_based) =>
      /\ Failed(r) \subseteq Planned(r)
      /\ stats.total_files >= Cardinality(Failed(r))
      /\ (run[r].pc = "done" /\ run[r].fresh) =>
           stats.total_files
             = Cardinality({n \in Planned(r) : source[n] = NoEntry}) + Cardinality(Failed(r))
      /\ \A n \in Failed(r) :
           /\ IsFile(source[n])
           /\ \A c \in Categories :
                n \in PlannedIn(r, join(source_dir, c)) =>
                  /\ stats.files_by_category[c] >= 1
                  /\ run[r].fresh =>
                       /\ stats.size_by_category[c] >= get_file_size(source[n])
                       /\ stats.total_size >= get_file_size(source[n])

\* C10 happens: a classification pass ends with one file moved and one
\* whose move failed, and total_files is 2.
C10_Witness ==
  \E r \in Runners :
    /\ run[r].pc = "done"
    /\ run[r].alone
    /\ ~run[r].date_based
    /\ Failed(r) # {}
    /\ \E n \in Planned(r) : n \notin Failed(r) /\ source[n] = NoEntry
    /\ stats.total_files = 2

\* C11  space_freed stays 0 in either mode: every destination a pass plans
\* is built under source_dir and has its drive, so the paths of a move
\* never differ in their drives and nothing is ever added to space_freed.
C11_NothingFreed ==
  /\ stats.space_freed = 0
  /\ \A r \in Runners : \A i \in 1..Len(run[r].plan) :
       \A j \in 1..Len(run[r].plan[i].files) :
         splitdrive_file(join_file(run[r].plan[i].destination_dir, run[r].plan[i].files[j]))
           = splitdrive_file(join_file(source_dir, run[r].plan[i].files[j]))

\* C11 happens: a date-mode pass has moved a file into the folder of its
\* month, two levels below source_dir, and has reached its end.
C11_Witness ==
  \E r \in Runners :
    /\ run[r].pc = "done"
    /\ run[r].date_based
    /\ \E i \in 1..Len(run[r].plan) :
         /\ run[r].plan[i].destination_dir \in MonthDirs
         /\ \E n \in Names : IsFile(held[run[r].plan[i].destination_dir][n])
    /\ stats.space_freed = 0

\* The same for a classification pass.
C11_WitnessCategory ==
  \E r \in Runners :
    /\ run[r].pc = "done"
    /\ ~run[r].date_based
    /\ \E i \in 1..Len(run[r].plan) :
         /\ run[r].plan[i].destination_dir \in CategoryDirs
         /\ \E n \in Names : IsFile(held[run[r].plan[i].destination_dir][n])
    /\ stats.total_size > 0
    /\ stats.space_freed = 0

\* The sniffer is there and returns a string that starts with "text/".
SniffedText ==
  /\ magic_available
  /\ probe.sniff.ok
  /\ startswith(probe.sniff.mime, <<"t","e","x","t","/">>)

\* C12  A sniffed string that starts with "text/" gives "Documents" whatever
\* the extension; "Code" is never the answer of a MIME rule: it is returned
\* only when the lookup of the extension is reached and the extension is in
\* the table of "Code".
C12_TextIsDocuments ==
  probe.called =>
    /\ SniffedText => probe.category = "Documents"
    /\ probe.category = "Code" =>
         /\ FellBack
         /\ \E i \in 1..Len(file_types) :
              file_types[i][1] = "Code" /\ ProbeExtension \in file_types[i][2]

\* C12 happens: f.py, sniffed as text/x-python, is filed under "Documents".
C12_Witness ==
  /\ probe.called
  /\ SniffedText
  /\ probe.sniff.mime = <<"t","e","x","t","/","x","-","p","y","t","h","o","n">>
  /\ probe.filename = <<"f",".","p","y">>
  /\ probe.category = "Documents"

\* And a name with an extension of "Code" is filed under "Code" by the
\* extension, the sniffer having matched no rule.
C12_WitnessCode ==
  /\ probe.called
  /\ magic_available
  /\ probe.sniff.ok
  /\ FellBack
  /\ probe.category = "Code"

====
